---- MODULE Spec2Model ----
(***************************************************************************)
(* OpenAIQueryGenerator (src/query_generators/openai.py).                  *)
(*                                                                         *)
(* A Python string is modelled as a sequence of symbols: a symbol is one   *)
(* of the markers the code searches for ("### Input:", "### Response:",    *)
(* the sql fence, a format placeholder) or an opaque piece of text.  The   *)
(* three-backquote fence is written '''.  The empty string is << >>.       *)
(* One generator instance is shared by the callers; each caller runs       *)
(* generate_query one step at a time, and the completion invoker runs on   *)
(* the worker thread that func_timeout starts.                             *)
(***************************************************************************)
EXTENDS Integers, Sequences, FiniteSets, TLC

\* ------------------------------------------------------------------ bounds
MaxTemplateLen == 3
MaxTextLen == 3

\* ------------------------------------------------------- program constants
SleepSeconds == 5
MaxTokens == 400
Temperature == 0

LEGACY_MODEL == "text-davinci-003"
INPUT_DELIM == "### Input:"
RESPONSE_DELIM == "### Response:"
SQL_FENCE == "'''sql"
STOP == <<"'''">>
USER_QUESTION == "{user_question}"
TABLE_METADATA == "{table_metadata_string}"

\* The models the class documents as available (docstring, line 14).
Models == {"text-davinci-003", "gpt-4-0613", "gpt-3.5-turbo-0613"}
Timeouts == {3, 10}
Questions == {"how many users?"}
Callers == {1, 2}

\* ------------------------------------------------------------ string model
RECURSIVE SeqsUpTo(_, _)
SeqsUpTo(S, n) ==
    IF n = 0 THEN {<< >>}
    ELSE LET shorter == SeqsUpTo(S, n - 1)
         IN  shorter \cup {Append(s, x) : s \in shorter, x \in S}

\* The prompt files: the two delimiters and a placeholder, in any order.
TemplateSymbols == {INPUT_DELIM, RESPONSE_DELIM, USER_QUESTION}
Templates == SeqsUpTo(TemplateSymbols, MaxTemplateLen)

\* What the completion service can generate.
GeneratedTexts ==
    { << >>, <<"SELECT 1">>, <<"blah", SQL_FENCE, "SELECT 2">> }

Contains(s, d) == \E i \in 1..Len(s) : s[i] = d
FirstIndex(s, d) == CHOOSE i \in 1..Len(s) : s[i] = d /\ \A j \in 1..(i - 1) : s[j] # d

\* str.split(d): the segments between the occurrences of d (always >= 1).
RECURSIVE Split(_, _)
Split(s, d) ==
    IF ~Contains(s, d) THEN <<s>>
    ELSE LET i == FirstIndex(s, d)
         IN  <<SubSeq(s, 1, i - 1)>> \o Split(SubSeq(s, i + 1, Len(s)), d)

Last(parts) == parts[Len(parts)]

\* prune_metadata_str(question, db_name): an external collaborator.
prune_metadata_str(question) == "table users(id, name)"

\* str.format(user_question=..., table_metadata_string=...)
Format(s, question) ==
    [i \in 1..Len(s) |->
        IF s[i] = USER_QUESTION THEN question
        ELSE IF s[i] = TABLE_METADATA THEN prune_metadata_str(question)
        ELSE s[i]]

\* The segment after the first fence instead of the last: split(...)[1].
ExtractQuery_after_first(results) ==
    LET parts == Split(results, SQL_FENCE)
    IN  IF Len(parts) >= 2 THEN parts[2] ELSE parts[1]

\* results.split(SQL_FENCE)[-1]
ExtractQuery(results) == Last(Split(results, SQL_FENCE))

\* -------------------------------------------------------- prompt assembly
Message(role, content) == [role |-> role, content |-> content]

\* count_tokens' keyword arguments: messages=[] and prompt="".
Package(messages, prompt) == [messages |-> messages, prompt |-> prompt]

IsLegacy(m) == m = LEGACY_MODEL

\* Lines 144-146 index the split lists at [1]: an IndexError when the
\* delimiter does not occur.
SplitFails(tpl) ==
    \/ Len(Split(tpl, INPUT_DELIM)) < 2
    \/ Len(Split(tpl, RESPONSE_DELIM)) < 2

sys_prompt(tpl) == Split(tpl, INPUT_DELIM)[1]
user_prompt(tpl, q) == Format(Split(Split(tpl, INPUT_DELIM)[2], RESPONSE_DELIM)[1], q)
assistant_prompt(tpl) == Split(tpl, RESPONSE_DELIM)[2]

BuildMessages(tpl, q) ==
    << Message("system", sys_prompt(tpl)),
       Message("user", user_prompt(tpl, q)),
       Message("assistant", assistant_prompt(tpl)) >>

BuildPackage(m, tpl, q) ==
    IF IsLegacy(m) THEN Package(<< >>, Format(tpl, q))
    ELSE Package(BuildMessages(tpl, q), << >>)

\* ----------------------------------------------------------- count_tokens
\* tokenizer.encode: one token for each symbol of the text.
Encode(value) == value

RECURSIVE SumTokens(_)
SumTokens(messages) ==
    IF messages = << >> THEN 0
    ELSE Len(Encode(<<messages[1].role>>)) + Len(Encode(messages[1].content))
         + SumTokens(Tail(messages))

count_tokens(m, messages, prompt) ==
    IF m # LEGACY_MODEL THEN SumTokens(messages) ELSE Len(Encode(prompt))

\* ---------------------------------------------------- completion service
TransientErrors == {"RateLimitError", "ServiceUnavailableError"}
PermanentErrors == {"APIError"}

\* What one call to the service can do besides never answering: answer with
\* a well-formed body, answer with a body that lacks the expected keys, or
\* raise.
Outcomes ==
    [kind : {"ok"}, text : GeneratedTexts]
    \cup [kind : {"malformed"} \cup TransientErrors \cup PermanentErrors, text : {<< >>}]

ExcMessage(kind) ==
    IF kind \in TransientErrors THEN "overloaded" ELSE "invalid request"

NoExc == [kind |-> "", msg |-> ""]
Exc(kind, msg) == [kind |-> kind, msg |-> msg]

\* The key under choices[0] that holds the text in an endpoint's response.
EndpointField(endpoint) ==
    IF endpoint = "ChatCompletion" THEN "message" ELSE "text"

FirstEndpoint(variant) == IF variant = "chat" THEN "ChatCompletion" ELSE "Completion"
RetryEndpoint(variant) == "ChatCompletion"
ReadField(variant) == IF variant = "chat" THEN "message" ELSE "text"

\* The chat invoker dispatched whatever the model.
Variant_always_chat(m) == "chat"

\* function_to_run (lines 164-169).
Variant(m) == IF IsLegacy(m) THEN "nonchat" ELSE "chat"

\* What the statements "completion = create(...); generated_text =
\* completion[...]" raise, NoExc when they run through.
AttemptExc(variant, endpoint, o) ==
    IF o.kind \in TransientErrors \cup PermanentErrors THEN Exc(o.kind, ExcMessage(o.kind))
    ELSE IF o.kind = "malformed" THEN Exc("KeyError", "'choices'")
    ELSE IF EndpointField(endpoint) # ReadField(variant)
         THEN Exc("KeyError", ReadField(variant))
    ELSE NoExc

Request(endpoint, m, pkg) ==
    [endpoint |-> endpoint, model |-> m, package |-> pkg,
     max_tokens |-> MaxTokens, temperature |-> Temperature, stop |-> STOP,
     logit_bias |-> << >>]

\* ------------------------------------------------------------ err strings
TIMEOUT_ERR == <<"QUERY GENERATION TIMEOUT">>
ErrorText(e) == <<"QUERY GENERATION ERROR: ", e.kind, e.msg>>
ErrorTextWithCompletion(e, completion) ==
    ErrorText(e) \o <<", Completion: ">> \o completion

\* ------------------------------------------------------------------ state
VARIABLES
    model, verbose, timeout,     \* configuration set by __init__
    self_err, self_query, self_reason,   \* instance attributes
    self_completion,             \* self.completion, meaningful once assigned
    has_completion,              \* whether self.completion has been assigned
    pc,                          \* each caller's position in generate_query
    chat_prompt, question,       \* locals of the running call
    package,                     \* the messages or prompt built for the call
    tokens_used,                 \* << >> until the local is bound, then <<n>>
    exc,                         \* the exception a call ended with
    result,                      \* the dict a call returned
    worker,                      \* position of the func_timeout worker thread
    generated_text,              \* the invoker's return value
    worker_exc,                  \* the exception the invoker raised
    requests,                    \* the service calls of the running call
    outcomes,                    \* what the service did with each of them
    timed_out,                   \* whether func_timeout raised FunctionTimedOut
    stdout                       \* the diagnostic lines the call printed

config == <<model, verbose, timeout>>
self == <<self_err, self_query, self_reason, self_completion, has_completion>>
locals == <<chat_prompt, question, package, tokens_used, exc, result>>
thread == <<worker, generated_text, worker_exc, requests, outcomes>>
vars == <<config, self, pc, locals, thread, timed_out, stdout>>

NoResult == [query |-> << >>, reason |-> << >>, err |-> << >>, tokens_used |-> << >>]

\* __init__ (lines 26-32); no generate_query has run yet.
InitWith(ms, vs, ts) ==
    /\ model \in ms
    /\ verbose \in vs
    /\ timeout \in ts
    /\ self_err = << >> /\ self_query = << >> /\ self_reason = << >>
    /\ self_completion = << >> /\ has_completion = FALSE
    /\ pc = [c \in Callers |-> "idle"]
    /\ chat_prompt = [c \in Callers |-> << >>]
    /\ question = [c \in Callers |-> ""]
    /\ package = [c \in Callers |-> Package(<< >>, << >>)]
    /\ tokens_used = [c \in Callers |-> << >>]
    /\ exc = [c \in Callers |-> NoExc]
    /\ result = [c \in Callers |-> NoResult]
    /\ worker = [c \in Callers |-> "idle"]
    /\ generated_text = [c \in Callers |-> << >>]
    /\ worker_exc = [c \in Callers |-> NoExc]
    /\ requests = [c \in Callers |-> << >>]
    /\ outcomes = [c \in Callers |-> << >>]
    /\ timed_out = [c \in Callers |-> FALSE]
    /\ stdout = [c \in Callers |-> << >>]

\* print(...) under "if self.verbose".
Diagnostic(c, line) == IF verbose THEN Append(stdout[c], line) ELSE stdout[c]

\* generate_query without lines 136-138: the scratch attributes keep what the
\* previous call left.
generate_query_no_reset(c, tpl, q) ==
    /\ pc[c] = "idle"
    /\ chat_prompt' = [chat_prompt EXCEPT ![c] = tpl]
    /\ question' = [question EXCEPT ![c] = q]
    /\ pc' = [pc EXCEPT ![c] = "assemble"]
    /\ UNCHANGED <<config, self, package, tokens_used, exc, result, thread,
                   timed_out, stdout>>

\* Lines 134-141: the call starts, resets the scratch attributes and reads
\* the prompt file.
generate_query(c, tpl, q) ==
    /\ pc[c] = "idle"
    /\ self_err' = << >> /\ self_query' = << >> /\ self_reason' = << >>
    /\ chat_prompt' = [chat_prompt EXCEPT ![c] = tpl]
    /\ question' = [question EXCEPT ![c] = q]
    /\ pc' = [pc EXCEPT ![c] = "assemble"]
    /\ UNCHANGED <<config, self_completion, has_completion, package, tokens_used,
                   exc, result, thread, timed_out, stdout>>

\* AssemblePrompt with missing sections padded by empty messages instead of
\* the IndexError.
AssemblePrompt_lenient(c) ==
    /\ pc[c] = "assemble"
    /\ package' = [package EXCEPT ![c] =
                     IF ~IsLegacy(model) /\ SplitFails(chat_prompt[c])
                     THEN Package(<<Message("system", chat_prompt[c])>>, << >>)
                     ELSE BuildPackage(model, chat_prompt[c], question[c])]
    /\ pc' = [pc EXCEPT ![c] = "dispatch"]
    /\ UNCHANGED <<config, self, chat_prompt, question, tokens_used, exc, result,
                   thread, timed_out, stdout>>

\* Lines 143-169: the messages or the prompt; an IndexError leaves the call.
AssemblePrompt(c) ==
    /\ pc[c] = "assemble"
    /\ IF ~IsLegacy(model) /\ SplitFails(chat_prompt[c])
       THEN /\ exc' = [exc EXCEPT ![c] = Exc("IndexError", "list index out of range")]
            /\ pc' = [pc EXCEPT ![c] = "raised"]
            /\ UNCHANGED package
       ELSE /\ package' = [package EXCEPT ![c] = BuildPackage(model, chat_prompt[c], question[c])]
            /\ pc' = [pc EXCEPT ![c] = "dispatch"]
            /\ UNCHANGED exc
    /\ UNCHANGED <<config, self, chat_prompt, question, tokens_used, result, thread,
                   timed_out, stdout>>

\* Lines 172-182 and 46-53 / 86-93: func_timeout starts the worker, which
\* issues the first request.
func_timeout(c) ==
    /\ pc[c] = "dispatch"
    /\ pc' = [pc EXCEPT ![c] = "waiting"]
    /\ worker' = [worker EXCEPT ![c] = "attempt1"]
    /\ requests' = [requests EXCEPT ![c] =
                      <<Request(FirstEndpoint(Variant(model)), model, package[c])>>]
    /\ UNCHANGED <<config, self, locals, generated_text, worker_exc, outcomes,
                   timed_out, stdout>>

\* The retry made only by a verbose generator.
FirstAttemptHandler_retry_if_verbose(e) ==
    IF e = NoExc THEN "return"
    ELSE IF e.kind \in TransientErrors /\ verbose THEN "retry"
    ELSE "swallow"

\* Every exception of the first attempt retried, not only the transient ones.
FirstAttemptHandler_retry_all(e) == IF e = NoExc THEN "return" ELSE "retry"

\* Which clause of the try statement handles what the first attempt raised
\* (lines 45, 55, 69).
FirstAttemptHandler(e) ==
    IF e = NoExc THEN "return"
    ELSE IF e.kind \in TransientErrors THEN "retry"
    ELSE "swallow"

\* Lines 46-58 and 69-72 (86-98 and 109-112): the first attempt ends.
FirstAttempt(c, o) ==
    /\ worker[c] = "attempt1"
    /\ outcomes' = [outcomes EXCEPT ![c] = Append(@, o)]
    /\ LET e == AttemptExc(Variant(model), requests[c][1].endpoint, o)
           h == FirstAttemptHandler(e)
       IN  /\ worker' = [worker EXCEPT ![c] = IF h = "retry" THEN "sleeping" ELSE "returned"]
           /\ generated_text' = [generated_text EXCEPT ![c] =
                                   IF h = "return" THEN o.text ELSE << >>]
           /\ stdout' = [stdout EXCEPT ![c] =
                           IF h = "retry" THEN Diagnostic(c, "Model overloaded. Pausing for 5s before retrying...")
                           ELSE IF h = "swallow" THEN Diagnostic(c, e.kind)
                           ELSE @]
    /\ UNCHANGED <<config, self, pc, locals, worker_exc, requests, timed_out>>

\* Lines 58-67 (98-107): time.sleep(5) ends before the deadline and the
\* request is issued again.  Time is not counted: the sleep can end first
\* only when the deadline is longer than the sleep, and OnTimeout can come
\* first in any case.
Retry(c) ==
    /\ worker[c] = "sleeping"
    /\ timeout > SleepSeconds
    /\ worker' = [worker EXCEPT ![c] = "attempt2"]
    /\ requests' = [requests EXCEPT ![c] =
                      Append(@, Request(RetryEndpoint(Variant(model)), model, package[c]))]
    /\ UNCHANGED <<config, self, pc, locals, generated_text, worker_exc, outcomes,
                   timed_out, stdout>>

\* An exception raised inside an except clause is not handled by the later
\* clauses of the same try statement.
RetryHandler(e) == IF e = NoExc THEN "return" ELSE "propagate"

\* Lines 60-68 (100-108): the retried attempt ends.
RetryAttempt(c, o) ==
    /\ worker[c] = "attempt2"
    /\ outcomes' = [outcomes EXCEPT ![c] = Append(@, o)]
    /\ LET e == AttemptExc(Variant(model), requests[c][2].endpoint, o)
           h == RetryHandler(e)
       IN  /\ worker' = [worker EXCEPT ![c] =
                           IF h = "propagate" THEN "raised" ELSE "returned"]
           /\ generated_text' = [generated_text EXCEPT ![c] =
                                   IF h = "return" THEN o.text ELSE << >>]
           /\ worker_exc' = [worker_exc EXCEPT ![c] = IF h = "propagate" THEN e ELSE NoExc]
    /\ UNCHANGED <<config, self, pc, locals, requests, timed_out, stdout>>

\* Lines 172 and 183-185: the invoker returned within the deadline.
OnResult(c) ==
    /\ pc[c] = "waiting" /\ worker[c] = "returned"
    /\ self_completion' = generated_text[c]
    /\ has_completion' = TRUE
    /\ self_query' = ExtractQuery(generated_text[c])
    /\ self_reason' = <<"-">>
    /\ pc' = [pc EXCEPT ![c] = "count"]
    /\ UNCHANGED <<config, self_err, locals, thread, timed_out, stdout>>

\* The placeholder reason assigned before the invocation, so that a timeout
\* leaves it set.
OnTimeout_reason_set(c) ==
    /\ pc[c] = "waiting" /\ worker[c] \in {"attempt1", "sleeping", "attempt2"}
    /\ timed_out' = [timed_out EXCEPT ![c] = TRUE]
    /\ worker' = [worker EXCEPT ![c] = "abandoned"]
    /\ stdout' = [stdout EXCEPT ![c] = Diagnostic(c, "generating query timed out")]
    /\ self_err' = TIMEOUT_ERR
    /\ self_reason' = <<"-">>
    /\ pc' = [pc EXCEPT ![c] = "count"]
    /\ UNCHANGED <<config, self_query, self_completion, has_completion,
                   locals, generated_text, worker_exc, requests, outcomes>>

\* The invoker called directly, without func_timeout: no deadline.
OnTimeout_never(c) == FALSE /\ UNCHANGED vars

\* Lines 186-189: the worker is still running when the deadline elapses
\* (the service has not answered, or the sleep has not ended); it is
\* abandoned.
OnTimeout(c) ==
    /\ pc[c] = "waiting" /\ worker[c] \in {"attempt1", "sleeping", "attempt2"}
    /\ timed_out' = [timed_out EXCEPT ![c] = TRUE]
    /\ worker' = [worker EXCEPT ![c] = "abandoned"]
    /\ stdout' = [stdout EXCEPT ![c] = Diagnostic(c, "generating query timed out")]
    /\ self_err' = TIMEOUT_ERR
    /\ pc' = [pc EXCEPT ![c] = "count"]
    /\ UNCHANGED <<config, self_query, self_reason, self_completion, has_completion,
                   locals, generated_text, worker_exc, requests, outcomes>>

\* Lines 190-198: the invoker raised.  Line 196 reads self.completion, an
\* AttributeError when no call has assigned it.
OnException(c) ==
    /\ pc[c] = "waiting" /\ worker[c] = "raised"
    /\ stdout' = [stdout EXCEPT ![c] = Diagnostic(c, "Error while generating query")]
    /\ self_query' = << >>
    /\ self_reason' = << >>
    /\ LET e == worker_exc[c]
       IN  IF e.kind = "KeyError" /\ ~has_completion
           THEN /\ exc' = [exc EXCEPT ![c] = Exc("AttributeError", "completion")]
                /\ pc' = [pc EXCEPT ![c] = "raised"]
                /\ UNCHANGED self_err
           ELSE /\ self_err' = IF e.kind = "KeyError"
                               THEN ErrorTextWithCompletion(e, self_completion)
                               ELSE ErrorText(e)
                /\ pc' = [pc EXCEPT ![c] = "count"]
                /\ UNCHANGED exc
    /\ UNCHANGED <<config, self_completion, has_completion, chat_prompt, question,
                   package, tokens_used, result, thread, timed_out>>

\* CountTokens counting the response as well.
CountTokens_with_response(c) ==
    /\ pc[c] = "count"
    /\ tokens_used' = [tokens_used EXCEPT ![c] =
                         <<count_tokens(model, package[c].messages, package[c].prompt)
                           + Len(generated_text[c])>>]
    /\ pc' = [pc EXCEPT ![c] = "return"]
    /\ UNCHANGED <<config, self, chat_prompt, question, package, exc, result, thread,
                   timed_out, stdout>>

\* Lines 200-203.
CountTokens(c) ==
    /\ pc[c] = "count"
    /\ tokens_used' = [tokens_used EXCEPT ![c] =
                         <<count_tokens(model, package[c].messages, package[c].prompt)>>]
    /\ pc' = [pc EXCEPT ![c] = "return"]
    /\ UNCHANGED <<config, self, chat_prompt, question, package, exc, result, thread,
                   timed_out, stdout>>

\* Lines 205-211 (latency_seconds is left out).
Return(c) ==
    /\ pc[c] = "return"
    /\ result' = [result EXCEPT ![c] =
                    [query |-> self_query, reason |-> self_reason, err |-> self_err,
                     tokens_used |-> tokens_used[c]]]
    /\ pc' = [pc EXCEPT ![c] = "returned"]
    /\ UNCHANGED <<config, self, chat_prompt, question, package, tokens_used, exc,
                   thread, timed_out, stdout>>

\* The caller has the result (or the exception); its frame is gone.
Finish(c) ==
    /\ pc[c] \in {"returned", "raised"}
    /\ pc' = [pc EXCEPT ![c] = "idle"]
    /\ chat_prompt' = [chat_prompt EXCEPT ![c] = << >>]
    /\ question' = [question EXCEPT ![c] = ""]
    /\ package' = [package EXCEPT ![c] = Package(<< >>, << >>)]
    /\ tokens_used' = [tokens_used EXCEPT ![c] = << >>]
    /\ exc' = [exc EXCEPT ![c] = NoExc]
    /\ result' = [result EXCEPT ![c] = NoResult]
    /\ worker' = [worker EXCEPT ![c] = "idle"]
    /\ generated_text' = [generated_text EXCEPT ![c] = << >>]
    /\ worker_exc' = [worker_exc EXCEPT ![c] = NoExc]
    /\ requests' = [requests EXCEPT ![c] = << >>]
    /\ outcomes' = [outcomes EXCEPT ![c] = << >>]
    /\ timed_out' = [timed_out EXCEPT ![c] = FALSE]
    /\ stdout' = [stdout EXCEPT ![c] = << >>]
    /\ UNCHANGED <<config, self>>

\* ---------------------------------------------------------- specifications
\* One thread of control calls generate_query again and again.
Init == InitWith(Models, BOOLEAN, Timeouts)

Next ==
    \/ \E tpl \in Templates, q \in Questions : generate_query(1, tpl, q)
    \/ AssemblePrompt(1)
    \/ func_timeout(1)
    \/ \E o \in Outcomes : FirstAttempt(1, o)
    \/ Retry(1)
    \/ \E o \in Outcomes : RetryAttempt(1, o)
    \/ OnResult(1)
    \/ OnTimeout(1)
    \/ OnException(1)
    \/ CountTokens(1)
    \/ Return(1)
    \/ Finish(1)

Spec == Init /\ [][Next]_vars

\* The calling thread runs on, and the deadline of func_timeout elapses;
\* nothing makes the service answer.
CallerStep ==
    \/ AssemblePrompt(1) \/ func_timeout(1) \/ OnResult(1) \/ OnException(1)
    \/ CountTokens(1) \/ Return(1)

FairSpec == Spec /\ WF_vars(CallerStep) /\ WF_vars(OnTimeout(1))

\* Two threads call generate_query on the same instance.
ConcTemplates == { <<INPUT_DELIM, USER_QUESTION, RESPONSE_DELIM>> }

InitConc == InitWith({LEGACY_MODEL, "gpt-4-0613"}, {FALSE}, {10})

NextConc ==
    \E c \in Callers :
        \/ \E tpl \in ConcTemplates, q \in Questions : generate_query(c, tpl, q)
        \/ AssemblePrompt(c)
        \/ func_timeout(c)
        \/ \E o \in Outcomes : FirstAttempt(c, o)
        \/ Retry(c)
        \/ \E o \in Outcomes : RetryAttempt(c, o)
        \/ OnResult(c)
        \/ OnTimeout(c)
        \/ OnException(c)
        \/ CountTokens(c)
        \/ Return(c)
        \/ Finish(c)

SpecConc == InitConc /\ [][NextConc]_vars

\* One chat-mode caller whose service generates every text of up to
\* MaxTextLen symbols, the sql fence among them.
TextSymbols == {"blah", SQL_FENCE, "SELECT 1"}
WideTexts == SeqsUpTo(TextSymbols, MaxTextLen)
WideOutcomes ==
    [kind : {"ok"}, text : WideTexts]
    \cup [kind : {"malformed"} \cup TransientErrors \cup PermanentErrors, text : {<< >>}]

InitTexts == InitWith({"gpt-4-0613"}, {FALSE}, {10})

NextTexts ==
    \/ \E tpl \in ConcTemplates, q \in Questions : generate_query(1, tpl, q)
    \/ AssemblePrompt(1)
    \/ func_timeout(1)
    \/ \E o \in WideOutcomes : FirstAttempt(1, o)
    \/ Retry(1)
    \/ \E o \in WideOutcomes : RetryAttempt(1, o)
    \/ OnResult(1)
    \/ OnTimeout(1)
    \/ OnException(1)
    \/ CountTokens(1)
    \/ Return(1)
    \/ Finish(1)

SpecTexts == InitTexts /\ [][NextTexts]_vars

\* ------------------------------------------------------------------ claims
Fields(r) == <<r.query, r.reason, r.err>>
Ended(c) == pc[c] \in {"returned", "raised"}
TransientThenOk(c) ==
    /\ Len(outcomes[c]) = 2
    /\ outcomes[c][1].kind \in TransientErrors
    /\ outcomes[c][2].kind = "ok"

\* C1: a call whose bounded-time invocation timed out returns, and returns
\* err = "QUERY GENERATION TIMEOUT" with query = "" and reason = "".
C1_TimeoutResult ==
    \A c \in Callers :
        timed_out[c] =>
            /\ pc[c] \in {"count", "return", "returned"}
            /\ self_err = <<"QUERY GENERATION TIMEOUT">>
            /\ pc[c] = "returned" =>
                 Fields(result[c]) = << << >>, << >>, <<"QUERY GENERATION TIMEOUT">> >>

\* A call on a reused instance (an earlier call left a completion) times out
\* during the retried attempt and returns.
C1_Witness ==
    /\ pc[1] = "returned" /\ timed_out[1]
    /\ Len(requests[1]) = 2 /\ Len(outcomes[1]) = 1
    /\ has_completion /\ self_completion # << >>

\* C2: in both modes, a transient error on the first attempt followed by a
\* successful retry within the deadline gives the result of a first-attempt
\* success with the same text.
C2_RetryTransparent ==
    \A c \in Callers :
        (Ended(c) /\ TransientThenOk(c) /\ ~timed_out[c]) =>
            /\ pc[c] = "returned"
            /\ Fields(result[c]) = <<ExtractQuery(outcomes[c][2].text), <<"-">>, << >> >>

\* C3: generate_query never ends by raising.
C3_NeverRaises == \A c \in Callers : pc[c] # "raised"

\* C4: the completion invoker never raises; whatever it swallows comes back
\* as the empty string.
C4_InvokerNeverRaises ==
    \A c \in Callers :
        /\ worker[c] # "raised"
        /\ (worker[c] = "returned" /\ outcomes[c][Len(outcomes[c])].kind # "ok")
              => generated_text[c] = << >>

\* C5: after a permanent exception on the first attempt there is no second
\* request, and the result has query = "" and an err naming the exception.
C5_PermanentFailureReported ==
    \A c \in Callers :
        (pc[c] = "returned" /\ outcomes[c] # << >> /\ outcomes[c][1].kind \in PermanentErrors) =>
            /\ Len(requests[c]) = 1
            /\ result[c].query = << >>
            /\ result[c].err # << >>
            /\ \E i \in 1..Len(result[c].err) : result[c].err[i] = outcomes[c][1].kind

\* C6: every returned result has exactly one of query and err non-empty.
C6_ExactlyOne ==
    \A c \in Callers :
        pc[c] = "returned" => ((result[c].query # << >>) # (result[c].err # << >>))

\* What the call's own invocation decides, whatever else runs.
AloneFields(c) ==
    IF timed_out[c] THEN << << >>, << >>, TIMEOUT_ERR >>
    ELSE IF worker[c] = "returned"
         THEN <<ExtractQuery(generated_text[c]), <<"-">>, << >> >>
    ELSE << << >>, << >>, result[c].err >>

\* C7: under every interleaving of two calls on one instance, each call
\* returns the query, reason and err it would have returned alone.
C7_Isolation ==
    \A c \in Callers :
        pc[c] = "returned" => Fields(result[c]) = AloneFields(c)

\* C8: a call whose template was accepted never blocks forever, whatever the
\* service does: it ends, and once the deadline has elapsed it returns.
C8_NeverBlocks ==
    /\ (pc[1] = "dispatch") ~> Ended(1)
    /\ timed_out[1] ~> (pc[1] = "returned")

\* The service has not answered the first request and the call has returned.
C8_Witness ==
    /\ pc[1] = "returned" /\ timed_out[1]
    /\ Len(requests[1]) = 1 /\ outcomes[1] = << >>

LacksDelimiter(tpl) == ~Contains(tpl, INPUT_DELIM) \/ ~Contains(tpl, RESPONSE_DELIM)

\* C9: in chat mode a template without one of the two delimiters ends the
\* call with an IndexError before any request is issued and before tokens
\* are counted.
C9_TemplateErrorFirst ==
    \A c \in Callers :
        (pc[c] # "idle" /\ model # LEGACY_MODEL /\ LacksDelimiter(chat_prompt[c])) =>
            /\ pc[c] \in {"assemble", "raised"}
            /\ pc[c] = "raised" => exc[c].kind = "IndexError"
            /\ requests[c] = << >>
            /\ tokens_used[c] = << >>

\* A chat-mode call whose template has "### Input:" but no "### Response:"
\* has raised.
C9_Witness ==
    /\ pc[1] = "raised" /\ model # LEGACY_MODEL
    /\ Contains(chat_prompt[1], INPUT_DELIM)
    /\ ~Contains(chat_prompt[1], RESPONSE_DELIM)

\* The token count of the prompt built from the template and the question.
PromptTokens(tpl, q) ==
    IF model = LEGACY_MODEL THEN Len(Format(tpl, q))
    ELSE 3 + Len(sys_prompt(tpl)) + Len(user_prompt(tpl, q)) + Len(assistant_prompt(tpl))

\* C10: every returned result carries the token count of the prompt or
\* messages built for the call, which is what every request carried,
\* whatever the invocation's outcome and the generated text.
C10_TokensFromPrompt ==
    \A c \in Callers :
        pc[c] = "returned" =>
            /\ result[c].tokens_used = <<PromptTokens(chat_prompt[c], question[c])>>
            /\ \A i \in 1..Len(requests[c]) : requests[c][i].package = package[c]

\* A chat-mode call whose retried attempt raised has returned with its
\* token count; so has (C1_Witness) a call that timed out.
C10_Witness ==
    /\ pc[1] = "returned" /\ worker[1] = "raised" /\ model # LEGACY_MODEL
    /\ result[1].tokens_used = <<4>>
    /\ result[1].err # << >>

\* The position of the last sql fence in a text, 0 when there is none.
LastFence(t) ==
    IF Contains(t, SQL_FENCE)
    THEN CHOOSE i \in 1..Len(t) : t[i] = SQL_FENCE /\ \A j \in (i + 1)..Len(t) : t[j] # SQL_FENCE
    ELSE 0

AfterLastFence(t) == SubSeq(t, LastFence(t) + 1, Len(t))

\* C11: on the success path the query is the part of the generated text that
\* follows its last sql fence, and the whole text when it has no fence.
C11_Extractor ==
    \A c \in Callers :
        (worker[c] = "returned" /\ pc[c] \in {"count", "return", "returned"}) =>
            /\ self_query = AfterLastFence(generated_text[c])
            /\ ~Contains(generated_text[c], SQL_FENCE) => self_query = generated_text[c]
            /\ pc[c] = "returned" => result[c].query = AfterLastFence(generated_text[c])

\* A text with two fences has been generated and the call returned what
\* follows the second.
C11_Witness ==
    /\ pc[1] = "returned" /\ worker[1] = "returned"
    /\ generated_text[1] = <<SQL_FENCE, "blah", SQL_FENCE>>
    /\ result[1].query = << >>

\* C12: one call issues at most two requests; the second only after a
\* transient error of the first and only out of the 5-second sleep, which
\* the deadline must outlast; whatever the second request does, none follows.
C12_AtMostOneRetry ==
    /\ [](\A c \in Callers :
            /\ Len(requests[c]) <= 2
            /\ Len(requests[c]) = 2 =>
                 /\ outcomes[c] # << >>
                 /\ outcomes[c][1].kind \in TransientErrors
                 /\ timeout > SleepSeconds)
    /\ [][\A c \in Callers :
            (requests[c] # << >> /\ Len(requests'[c]) > Len(requests[c])) =>
                (worker[c] = "sleeping" /\ Len(outcomes[c]) = 1)]_vars

\* The retried request failed with a transient error too, and the call
\* returned with two requests made.
C12_Witness ==
    /\ pc[1] = "returned" /\ Len(requests[1]) = 2 /\ Len(outcomes[1]) = 2
    /\ outcomes[1][2].kind \in TransientErrors

\* C13: in both variants the retried request goes to the endpoint of the
\* first one with the same model, prompt or messages, max tokens,
\* temperature, stop sequence and logit bias.
C13_RetryIdentical ==
    \A c \in Callers :
        Len(requests[c]) = 2 => requests[c][2] = requests[c][1]

\* C14: when the invoker's exception reaches generate_query, the call
\* returns query = "" and reason = "" with an err that records the kind and
\* the message of the exception and, for a KeyError, the completion text as
\* well; on the first call of a fresh instance too.
C14_ExceptionReported ==
    \A c \in Callers :
        (worker[c] = "raised" /\ Ended(c)) =>
            /\ pc[c] = "returned"
            /\ result[c].query = << >> /\ result[c].reason = << >>
            /\ Len(result[c].err) >= 3
            /\ SubSeq(result[c].err, 1, 3) = ErrorText(worker_exc[c])
            /\ worker_exc[c].kind = "KeyError" =>
                 (Len(result[c].err) >= 4 /\ result[c].err[4] = ", Completion: ")

\* The query, reason and err that the call's own invocation accounts for: a
\* call whose invoker raised has assigned no completion of its own.
OwnFields(c) ==
    IF timed_out[c] THEN << << >>, << >>, <<"QUERY GENERATION TIMEOUT">> >>
    ELSE IF worker[c] = "returned"
         THEN <<ExtractQuery(generated_text[c]), <<"-">>, << >> >>
    ELSE << << >>, << >>,
            IF worker_exc[c].kind = "KeyError"
            THEN ErrorTextWithCompletion(worker_exc[c], << >>)
            ELSE ErrorText(worker_exc[c]) >>

\* C15: in a sequence of calls on one instance, nothing an earlier call left
\* (query, reason, err, completion text) appears in a later call's result.
C15_NoCarryOver ==
    \A c \in Callers :
        pc[c] = "returned" => Fields(result[c]) = OwnFields(c)

\* C16: for "text-davinci-003" the call builds one prompt string, dispatches
\* the single-prompt invoker (its first request goes to Completion with that
\* string) and counts the tokens of the string; for any other model it
\* builds the system, user and assistant messages, dispatches the chat
\* invoker and counts the tokens of the three messages.
C16_ModeConsistent ==
    \A c \in Callers :
        pc[c] \in {"dispatch", "waiting", "count", "return", "returned"} =>
            LET msgs == package[c].messages
                prompt == package[c].prompt
            IN  IF model = "text-davinci-003"
                THEN /\ msgs = << >>
                     /\ prompt = Format(chat_prompt[c], question[c])
                     /\ requests[c] # << >> =>
                          /\ requests[c][1].endpoint = "Completion"
                          /\ requests[c][1].package = package[c]
                     /\ tokens_used[c] # << >> => tokens_used[c] = <<Len(prompt)>>
                ELSE /\ prompt = << >>
                     /\ Len(msgs) = 3
                     /\ <<msgs[1].role, msgs[2].role, msgs[3].role>>
                          = <<"system", "user", "assistant">>
                     /\ \A i \in 1..Len(requests[c]) :
                          /\ requests[c][i].endpoint = "ChatCompletion"
                          /\ requests[c][i].package = package[c]
                     /\ tokens_used[c] # << >> =>
                          tokens_used[c] = <<3 + Len(msgs[1].content) + Len(msgs[2].content)
                                               + Len(msgs[3].content)>>

\* A legacy call with a placeholder in its prompt has returned, and so may a
\* chat call.
C16_Witness ==
    /\ pc[1] = "returned" /\ model = "text-davinci-003"
    /\ package[1].prompt = <<"how many users?">>
    /\ requests[1][1].endpoint = "Completion"
    /\ tokens_used[1] = <<1>>

\* C17: when the invoker returns its text within the deadline, the call
\* returns reason = "-", err = "" and the extractor's output as query.
C17_SuccessFields ==
    \A c \in Callers :
        (worker[c] = "returned" /\ pc[c] = "returned") =>
            /\ result[c].reason = <<"-">>
            /\ result[c].err = << >>
            /\ result[c].query = ExtractQuery(generated_text[c])

\* A call whose retried attempt generated a fenced text has returned the part
\* after the fence.
C17_Witness ==
    /\ pc[1] = "returned" /\ worker[1] = "returned"
    /\ Len(outcomes[1]) = 2
    /\ generated_text[1] = <<"blah", SQL_FENCE, "SELECT 2">>
    /\ result[1].query = <<"SELECT 2">>

\* What the requests and the result of a call are, given the model, the
\* template, the question, what the service did, whether the deadline
\* elapsed and the completion an earlier call left; verbose and stdout do
\* not occur below.
ExpectedRequest(c, i) ==
    Request(IF model = LEGACY_MODEL /\ i = 1 THEN "Completion" ELSE "ChatCompletion",
            model, BuildPackage(model, chat_prompt[c], question[c]))

ServiceExc(c, i) ==
    LET o == outcomes[c][i]
    IN  IF o.kind = "ok"
        THEN IF model = LEGACY_MODEL /\ i = 2 THEN "KeyError" ELSE ""
        ELSE IF o.kind = "malformed" THEN "KeyError"
        ELSE o.kind

ExpectedFields(c) ==
    IF timed_out[c] THEN << << >>, << >>, <<"QUERY GENERATION TIMEOUT">> >>
    ELSE IF Len(outcomes[c]) = 1
         THEN <<AfterLastFence(IF ServiceExc(c, 1) = "" THEN outcomes[c][1].text ELSE << >>),
                <<"-">>, << >> >>
    ELSE IF ServiceExc(c, 2) = ""
         THEN <<AfterLastFence(outcomes[c][2].text), <<"-">>, << >> >>
    ELSE << << >>, << >>,
            <<"QUERY GENERATION ERROR: ", ServiceExc(c, 2), worker_exc[c].msg>>
            \o (IF ServiceExc(c, 2) = "KeyError"
                THEN <<", Completion: ">> \o self_completion ELSE << >>) >>

\* C18: verbose decides only what is printed: the requests of a call, and
\* the query, reason, err and tokens_used it returns, are the same function
\* of everything but verbose, and a generator that is not verbose prints
\* nothing.
C18_VerbosityOnlyPrints ==
    \A c \in Callers :
        /\ stdout[c] # << >> => verbose
        /\ \A i \in 1..Len(requests[c]) : requests[c][i] = ExpectedRequest(c, i)
        /\ (outcomes[c] # << >> /\ worker[c] # "abandoned") =>
             Len(requests[c]) =
                IF outcomes[c][1].kind \in TransientErrors /\ worker[c] # "sleeping"
                THEN 2 ELSE 1
        /\ pc[c] = "returned" =>
             /\ Fields(result[c]) = ExpectedFields(c)
             /\ result[c].tokens_used = <<PromptTokens(chat_prompt[c], question[c])>>
        /\ pc[c] = "raised" =>
             \/ requests[c] = << >>
             \/ Len(outcomes[c]) = 2 /\ ServiceExc(c, 2) = "KeyError" /\ ~has_completion

\* A generator that is not verbose has retried after a transient error and
\* returned the retried attempt's text, having printed nothing.
C18_Witness ==
    /\ ~verbose /\ pc[1] = "returned" /\ stdout[1] = << >>
    /\ Len(requests[1]) = 2 /\ outcomes[1][1].kind = "RateLimitError"
    /\ result[1].query = <<"SELECT 1">>

\* C19: a result returned by a call that no other call overlaps has err = ""
\* with reason = "-", or a non-empty err with reason = "" and query = "".
C19_TwoShapes ==
    \A c \in Callers :
        pc[c] = "returned" =>
            \/ result[c].err = << >> /\ result[c].reason = <<"-">>
            \/ result[c].err # << >> /\ result[c].reason = << >> /\ result[c].query = << >>

\* Both shapes on one instance: a call returned a query, and the next one
\* returned an err that quotes that completion, with query = "".
C19_Witness ==
    /\ pc[1] = "returned" /\ worker[1] = "raised"
    /\ self_completion = <<"SELECT 1">>
    /\ result[1].query = << >> /\ result[1].reason = << >>
    /\ Len(result[1].err) = 5

====
